---- MODULE Spec2Model ----
(***************************************************************************)
(* A model of the flight tracker (src/src/tracker.rs): the Aircraft        *)
(* record and its position merge (Aircraft::update_position), the Tracker  *)
(* with its counters and its three update entry points, and the windowed   *)
(* queries.  Times are integers in milliseconds (chrono DateTime<Utc> and  *)
(* Duration, at the resolution the bounds need); Option<T> is a sequence   *)
(* of length 0 or 1; a HashMap is a function on the set of its keys.      *)
(***************************************************************************)
EXTENDS Integers, Sequences, FiniteSets, TLC

\* ------------------------------------------------------------------ bounds
\* update calls per behaviour of Spec (ingest), SpecPos (position merge) and
\* SpecQuery (windowed queries)
MaxCalls == 2
MaxPosCalls == 3
MaxQueryCalls == 2
\* update calls per behaviour of SpecUnknown (unknown-message statistics)
MaxUnknownCalls == 3
\* update calls per behaviour of SpecClock (wall-clock throughput)
MaxClockCalls == 3

\* ------------------------------------------------------------- Option<T>
None == << >>
Some(x) == << x >>
IsSome(o) == o # << >>
Unwrap(o) == o[1]

\* ------------------------------------------------------- integer helpers
Abs(n) == IF n < 0 THEN -n ELSE n

\* Rust's integer division: truncation towards zero
TruncDiv(a, b) == IF a >= 0 THEN a \div b ELSE -((-a) \div b)

\* chrono Duration::num_seconds of a duration given in milliseconds: whole
\* seconds, truncated towards zero
num_seconds(ms) == TruncDiv(ms, 1000)

\* a.signed_duration_since(b)
signed_duration_since(a, b) == a - b

\* The sum of the values of a HashMap<_, u64>
RECURSIVE SumOver(_, _)
SumOver(f, keys) ==
    IF keys = {} THEN 0
    ELSE LET k == CHOOSE x \in keys : TRUE
         IN f[k] + SumOver(f, keys \ {k})

Sum(f) == SumOver(f, DOMAIN f)

\* *counts.entry(key).or_insert(0) += 1
entry_or_insert_incr(counts, key) ==
    IF key \in DOMAIN counts
    THEN [counts EXCEPT ![key] = @ + 1]
    ELSE (key :> 1) @@ counts

\* insert, but the map is rebuilt with the one entry
insert_alone(m, key, value) == (key :> value)

\* map.insert(key, value)
insert(m, key, value) == (key :> value) @@ m

\* ------------------------------------------------------------- messages
\* adsb::Message { downlink_format, kind }, kind one of ADSBMessage,
\* ModeSMessage (both carrying an icao_address) and Unknown.
AircraftIdentification(df, icao, callsign) ==
    [downlink_format |-> df, kind |-> "ADSBMessage", icao_address |-> Some(icao),
     body |-> [tag |-> "AircraftIdentification", callsign |-> callsign]]

AirbornePosition(df, icao, altitude, cpr_frame) ==
    [downlink_format |-> df, kind |-> "ADSBMessage", icao_address |-> Some(icao),
     body |-> [tag |-> "AirbornePosition", altitude |-> altitude,
               cpr_frame |-> cpr_frame]]

AirborneVelocity(df, icao, heading, ground_speed, vertical_rate, vertical_rate_source) ==
    [downlink_format |-> df, kind |-> "ADSBMessage", icao_address |-> Some(icao),
     body |-> [tag |-> "AirborneVelocity", heading |-> heading,
               ground_speed |-> ground_speed, vertical_rate |-> vertical_rate,
               vertical_rate_source |-> vertical_rate_source]]

SurveillanceIdentity(df, icao, squawk) ==
    [downlink_format |-> df, kind |-> "ModeSMessage", icao_address |-> Some(icao),
     body |-> [tag |-> "SurveillanceIdentity", squawk |-> squawk]]

UnknownMessage(df) ==
    [downlink_format |-> df, kind |-> "Unknown", icao_address |-> None,
     body |-> [tag |-> "Unknown"]]

\* icao(message): the address of a message that carries one
icao(message) ==
    IF message.kind = "Unknown" THEN None ELSE message.icao_address

\* adsb::CPRFrame: one half of a position, its parity and its encoded bits
CPRFrame(parity, bits) == [parity |-> parity, position |-> bits]

\* adsb::cpr::get_position((first, second)), the external CPR resolver: a
\* coordinate that depends on both fragments and on their order, or None
\* when the two halves do not decode together (here: their bits differ).
get_position(first, second) ==
    IF first.position = second.position
    THEN Some([latitude |-> << "lat", first, second >>,
               longitude |-> << "lon", first, second >>])
    ELSE None

\* str::trim on a sequence of characters: leading and trailing whitespace
\* is removed
IsWhitespace(c) == c \in {" ", "\n", "\r", "\t"}

RECURSIVE TrimStart(_)
TrimStart(s) ==
    IF s # << >> /\ IsWhitespace(Head(s)) THEN TrimStart(Tail(s)) ELSE s

RECURSIVE TrimEnd(_)
TrimEnd(s) ==
    IF s # << >> /\ IsWhitespace(s[Len(s)])
    THEN TrimEnd(SubSeq(s, 1, Len(s) - 1)) ELSE s

trim(s) == TrimEnd(TrimStart(s))

\* -------------------------------------------------------------- Aircraft
\* Aircraft::new
Aircraft_new(icao_address, time) ==
    [icao_address |-> icao_address,
     callsign |-> None,
     squawk |-> None,
     altitude |-> None,
     heading |-> None,
     ground_speed |-> None,
     vertical_rate |-> None,
     latitude |-> None,
     longitude |-> None,
     vertical_rate_source |-> None,
     last_seen |-> time,
     last_cpr_even |-> None,
     last_cpr_odd |-> None,
     last_pos_seen |-> None]

\* The validity window of a pair: delta.num_seconds().abs() <= 30
PairWindowSeconds == 30

pair_in_window(even_time, odd_time) ==
    Abs(num_seconds(signed_duration_since(even_time, odd_time))) <= PairWindowSeconds

\* store_fragment, but the fragment it replaces is kept as the other half
store_fragment_keep_replaced(self, cpr_frame, when) ==
    IF cpr_frame.parity = "Even"
    THEN [self EXCEPT !.last_cpr_even = Some(<< cpr_frame, when >>),
                      !.last_cpr_odd = IF IsSome(self.last_cpr_even)
                                       THEN self.last_cpr_even ELSE @]
    ELSE [self EXCEPT !.last_cpr_odd = Some(<< cpr_frame, when >>),
                      !.last_cpr_even = IF IsSome(self.last_cpr_odd)
                                        THEN self.last_cpr_odd ELSE @]

\* The fragment just received goes into the slot of its parity
store_fragment(self, cpr_frame, when) ==
    IF cpr_frame.parity = "Even"
    THEN [self EXCEPT !.last_cpr_even = Some(<< cpr_frame, when >>)]
    ELSE [self EXCEPT !.last_cpr_odd = Some(<< cpr_frame, when >>)]

\* resolve_pair, but always with (even, odd)
resolve_pair_even_first(last_parity, even, odd) == get_position(even, odd)

\* The resolver call, ordered by the parity of the fragment just received
resolve_pair(last_parity, even, odd) ==
    IF last_parity = "Even" THEN get_position(odd, even) ELSE get_position(even, odd)

\* Aircraft::update_position: the record after the call and the value it
\* returns (the time since the previous fix, if there was one)
update_position(self, cpr_frame, when) ==
    LET stored == store_fragment(self, cpr_frame, when)
        no_fix == [aircraft |-> stored, returned |-> None]
    IN  IF IsSome(stored.last_cpr_even) /\ IsSome(stored.last_cpr_odd)
        THEN LET even == Unwrap(stored.last_cpr_even)[1]
                 even_time == Unwrap(stored.last_cpr_even)[2]
                 odd == Unwrap(stored.last_cpr_odd)[1]
                 odd_time == Unwrap(stored.last_cpr_odd)[2]
             IN  IF pair_in_window(even_time, odd_time)
                 THEN LET position == resolve_pair(cpr_frame.parity, even, odd)
                      IN  IF IsSome(position)
                          THEN [aircraft |->
                                  [stored EXCEPT
                                     !.latitude = Some(Unwrap(position).latitude),
                                     !.longitude = Some(Unwrap(position).longitude),
                                     !.last_pos_seen = Some(when)],
                                returned |->
                                  IF IsSome(stored.last_pos_seen)
                                  THEN Some(signed_duration_since(
                                              when, Unwrap(stored.last_pos_seen)))
                                  ELSE None]
                          ELSE no_fix
                 ELSE no_fix
        ELSE no_fix

\* --------------------------------------------------------------- Tracker
VARIABLES
    map,                            \* HashMap<ICAOAddress, Aircraft>
    num_messages,
    num_unknown_messages,
    unknown_message_counts,         \* HashMap<u8, u64>
    unknown_message_data,           \* HashMap<u8, Vec<u8>>
    known_message_counts,           \* HashMap<u8, u64>
    most_recent_message_time,       \* Option<DateTime<Utc>>
    first_message_real_time,        \* Option<DateTime<Utc>>
    most_recent_message_real_time,  \* Option<DateTime<Utc>>
    pos_update_times,               \* HashMap<i64, u32>
    wall,                           \* the wall clock, Utc::now()
    alive,                          \* FALSE once a call has panicked
    calls,                          \* history: the update calls made so far
    rejected,                       \* history: those that did not return Ok
    log,                            \* history: <<icao, time>> of the messages processed
    last,                           \* history: the last call, its input and result
    before,                         \* history: the map as it was before the last call
    parities,                       \* history: per aircraft, the parity of its latest fragment
    samples,                        \* history: per downlink format, the payloads of its unknown messages
    query,                          \* the last query and the Vec it returned
    cmd,                            \* the source the program was started with
    reader,                         \* the ingestion thread: where it is, what it read
    main,                           \* the main thread: where it is, its locals
    mutex,                          \* the Mutex around the Tracker: holder, poisoned
    process,                        \* running or exited, the panic hook installed
    hist                            \* history of the threads

tracker == << map, num_messages, num_unknown_messages, unknown_message_counts,
              unknown_message_data, known_message_counts, most_recent_message_time,
              first_message_real_time, most_recent_message_real_time,
              pos_update_times >>

vars == << map, num_messages, num_unknown_messages, unknown_message_counts,
           unknown_message_data, known_message_counts, most_recent_message_time,
           first_message_real_time, most_recent_message_real_time,
           pos_update_times, wall, alive, calls, rejected, log, last, before, parities,
           samples, query, cmd, reader, main, mutex, process, hist >>

procs == << cmd, reader, main, mutex, process, hist >>

EmptyMap == [k \in {} |-> 0]

NoCall == [op |-> "none", result |-> "none", message |-> None, data |-> << >>,
           time |-> 0, returned |-> None, prev_parity |-> None]

NoQuery == [op |-> "none", interval |-> 0, now |-> 0, result |-> << >>]

NoHistory ==
    [source_closed |-> FALSE, batch |-> 0, held_updates |-> 0, tick_locks |-> 0,
     stats_seen |-> 0, torn |-> FALSE, panicked |-> FALSE, after_panic |-> FALSE]

\* A Tracker used without threads
NoThreads ==
    /\ cmd = "none"
    /\ reader = [pc |-> "none", input |-> << >>]
    /\ main = [pc |-> "none", quit |-> FALSE, input |-> << >>, num_rows |-> 0,
               last_printed |-> EmptyMap]
    /\ mutex = [holder |-> "none", poisoned |-> FALSE]
    /\ process = [state |-> "running", code |-> "none", hook |-> FALSE]
    /\ hist = NoHistory

\* Tracker::new, that is Tracker::default()
TrackerInit ==
    /\ map = EmptyMap
    /\ num_messages = 0
    /\ num_unknown_messages = 0
    /\ unknown_message_counts = EmptyMap
    /\ unknown_message_data = EmptyMap
    /\ known_message_counts = EmptyMap
    /\ most_recent_message_time = None
    /\ first_message_real_time = None
    /\ most_recent_message_real_time = None
    /\ pos_update_times = EmptyMap
    /\ wall = 0
    /\ alive = TRUE
    /\ calls = 0
    /\ rejected = 0
    /\ log = {}
    /\ last = NoCall
    /\ before = EmptyMap
    /\ parities = EmptyMap
    /\ samples = EmptyMap

Init == TrackerInit /\ query = NoQuery /\ NoThreads

\* update_unknown_message_statistics, but the unknown count is not incremented
update_unknown_message_statistics_uncounted(message, data) ==
    LET df == message.downlink_format
    IN  /\ unknown_message_counts' = entry_or_insert_incr(unknown_message_counts, df)
        /\ unknown_message_data' = insert(unknown_message_data, df, data)
        /\ num_unknown_messages' = num_unknown_messages

\* update_unknown_message_statistics, but the first sample of a format is kept
update_unknown_message_statistics_first_sample(message, data) ==
    LET df == message.downlink_format
    IN  /\ unknown_message_counts' = entry_or_insert_incr(unknown_message_counts, df)
        /\ unknown_message_data' = IF df \in DOMAIN unknown_message_data
                                   THEN unknown_message_data
                                   ELSE insert(unknown_message_data, df, data)
        /\ num_unknown_messages' = num_unknown_messages + 1

\* Tracker::update_unknown_message_statistics
update_unknown_message_statistics(message, data) ==
    LET df == message.downlink_format
    IN  /\ unknown_message_counts' = entry_or_insert_incr(unknown_message_counts, df)
        /\ unknown_message_data' = insert(unknown_message_data, df, data)
        /\ num_unknown_messages' = num_unknown_messages + 1

\* The match on message.kind that dispatches the payload to the record
\* (tracker.rs 219-264): the record, and what update_position returned
apply_body(aircraft, message, time) ==
    LET body == message.body
    IN  CASE body.tag = "AircraftIdentification" ->
               [aircraft |-> [aircraft EXCEPT !.callsign = Some(trim(body.callsign))],
                returned |-> None]
          [] body.tag = "AirbornePosition" ->
               update_position([aircraft EXCEPT !.altitude = Some(body.altitude)],
                               body.cpr_frame, time)
          [] body.tag = "AirborneVelocity" ->
               [aircraft |-> [aircraft EXCEPT
                                !.heading = Some(body.heading),
                                !.ground_speed = Some(body.ground_speed),
                                !.vertical_rate = Some(body.vertical_rate),
                                !.vertical_rate_source = Some(body.vertical_rate_source)],
                returned |-> None]
          [] body.tag = "SurveillanceIdentity" ->
               [aircraft |-> [aircraft EXCEPT !.squawk = Some(body.squawk)],
                returned |-> None]
          [] OTHER -> [aircraft |-> aircraft, returned |-> None]

\* bucket, but the duration is not rounded
bucket_unrounded(dur) == dur

\* The histogram bucket of a fix interval: 100 * (dur.num_milliseconds() / 100)
bucket(dur) == 100 * TruncDiv(dur, 100)

\* advance_most_recent, but a time that is set is never advanced
advance_most_recent_first(most_recent, time) ==
    IF most_recent = None THEN Some(time) ELSE most_recent

\* advance_most_recent, but the latest event time overwrites an earlier one
advance_most_recent_overwrite(most_recent, time) == Some(time)

\* The running maximum of the event times (tracker.rs 267-276)
advance_most_recent(most_recent, time) ==
    IF IsSome(most_recent)
    THEN IF Unwrap(most_recent) < time THEN Some(time) ELSE most_recent
    ELSE Some(time)

\* entry_or_insert_with, but the record is always a new one
entry_or_insert_with_fresh(m, icao_address, time) == Aircraft_new(icao_address, time)

\* self.map.entry(icao_address).or_insert_with(|| Aircraft::new(icao_address, time))
entry_or_insert_with(m, icao_address, time) ==
    IF icao_address \in DOMAIN m THEN m[icao_address] ELSE Aircraft_new(icao_address, time)

\* set_last_seen, but last_seen is never moved back
set_last_seen_latest(aircraft, time) ==
    [aircraft EXCEPT !.last_seen = IF @ < time THEN time ELSE @]

\* aircraft.last_seen = time
set_last_seen(aircraft, time) == [aircraft EXCEPT !.last_seen = time]

\* What update_position returned in a call of update_with_message
returned_by(message, time) ==
    IF message.kind = "Unknown" THEN None
    ELSE apply_body(entry_or_insert_with(map, Unwrap(message.icao_address), time),
                    message, time).returned

\* stamp_first, but the stamp is overwritten by every call
stamp_first_always(first, now) == Some(now)

\* if self.first_message_real_time.is_none() { .. = Some(now) }
stamp_first(first, now) == IF first = None THEN Some(now) ELSE first

\* unknown_arm, but without its return: the message goes on to the count of
\* known messages of its format
unknown_arm_falling_through(message, data) ==
    /\ update_unknown_message_statistics(message, data)
    /\ known_message_counts' =
         entry_or_insert_incr(known_message_counts, message.downlink_format)
    /\ UNCHANGED << map, most_recent_message_time, first_message_real_time,
                    most_recent_message_real_time, pos_update_times >>

\* The Unknown arm of update_with_message: the statistics of unknown
\* messages, then return Ok(())
unknown_arm(message, data) ==
    /\ update_unknown_message_statistics(message, data)
    /\ UNCHANGED << map, known_message_counts, most_recent_message_time,
                    first_message_real_time, most_recent_message_real_time,
                    pos_update_times >>

\* Tracker::update_with_message, with now the value of Utc::now()
update_with_message(message, data, time, now) ==
    /\ num_messages' = num_messages + 1
    /\ IF message.kind = "Unknown"
       THEN unknown_arm(message, data)
       ELSE LET icao_address == Unwrap(message.icao_address)
                aircraft == entry_or_insert_with(map, icao_address, time)
                applied == apply_body(aircraft, message, time)
            IN  /\ known_message_counts' =
                     entry_or_insert_incr(known_message_counts, message.downlink_format)
                /\ map' = insert(map, icao_address, set_last_seen(applied.aircraft, time))
                /\ pos_update_times' =
                     IF IsSome(applied.returned)
                     THEN entry_or_insert_incr(pos_update_times,
                                               bucket(Unwrap(applied.returned)))
                     ELSE pos_update_times
                /\ most_recent_message_time' =
                     advance_most_recent(most_recent_message_time, time)
                /\ first_message_real_time' = stamp_first(first_message_real_time, now)
                /\ most_recent_message_real_time' = Some(now)
                /\ UNCHANGED << num_unknown_messages, unknown_message_counts,
                                unknown_message_data >>

\* ------------------------------------------------------------ AVR frames
\* Result<T, E>
Ok(x) == << "Ok", x >>
Err == << "Err" >>
IsOk(r) == r[1] = "Ok"

HexDigits == << "0", "1", "2", "3", "4", "5", "6", "7", "8", "9",
                "A", "B", "C", "D", "E", "F" >>

LowerHexDigits == << "0", "1", "2", "3", "4", "5", "6", "7", "8", "9",
                     "a", "b", "c", "d", "e", "f" >>

IsHexDigit(c) ==
    \E i \in 1..16 : HexDigits[i] = c \/ LowerHexDigits[i] = c

HexValue(c) ==
    (CHOOSE i \in 1..16 : HexDigits[i] = c \/ LowerHexDigits[i] = c) - 1

\* u8::from_str_radix(s, 16) of a two-character slice: an optional "+" sign
\* followed by hex digits
u8_from_str_radix(s) ==
    IF IsHexDigit(s[1]) /\ IsHexDigit(s[2])
    THEN Ok(16 * HexValue(s[1]) + HexValue(s[2]))
    ELSE IF s[1] = "+" /\ IsHexDigit(s[2])
         THEN Ok(HexValue(s[2]))
         ELSE Err

\* The collect() of parse_avr over the 0-based indices i, i + 2, ... below
\* end: the bytes, or the first error
RECURSIVE collect_pairs(_, _, _)
collect_pairs(frame, i, end) ==
    IF i >= end THEN Ok(<< >>)
    ELSE LET byte == u8_from_str_radix(SubSeq(frame, i + 1, i + 2))
         IN  IF ~IsOk(byte) THEN Err
             ELSE LET rest == collect_pairs(frame, i + 2, end)
                  IN  IF IsOk(rest) THEN Ok(<< byte[2] >> \o rest[2]) ELSE Err

\* parse_avr, but over the whole frame, its first and last character included
parse_avr_whole_frame(frame) ==
    IF Len(frame) = 0 THEN << "panic" >>
    ELSE collect_pairs(frame, 0, Len(frame))

\* parse_avr: the pairs of characters from index 1 to below frame.len() - 1.
\* On an empty frame frame.len() - 1 underflows: a panic (checked build) or
\* a slice out of range (unchecked build), a panic in both.
parse_avr(frame) ==
    IF Len(frame) = 0 THEN << "panic" >>
    ELSE collect_pairs(frame, 1, Len(frame) - 1)

\* The length of the longest prefix of hex-digit pairs of s
RECURSIVE HexPairsPrefix(_)
HexPairsPrefix(s) ==
    IF Len(s) >= 2 /\ IsHexDigit(s[1]) /\ IsHexDigit(s[2])
    THEN 2 + HexPairsPrefix(SubSeq(s, 3, Len(s)))
    ELSE 0

\* adsb::parse_avr, the external decoder of text frames.  It returns the
\* message and the rest of the input: a frame is "*", pairs of hex digits
\* and ";", and what follows the ";" is handed back, not rejected.
avr_frame_shape(frame) ==
    /\ Len(frame) >= 2
    /\ frame[1] = "*"
    /\ LET n == HexPairsPrefix(Tail(frame))
       IN  n + 2 <= Len(frame) /\ frame[n + 2] = ";"

\* The results adsb::parse_avr can give on a frame: an error on a frame that
\* has not the shape, else an error or one of the messages of wire
adsb_parse_avr(frame, wire) ==
    IF avr_frame_shape(frame) THEN {Err} \cup {Ok(m) : m \in wire} ELSE {Err}

\* The results adsb::parse_binary, the external decoder, can give on a frame
adsb_parse_binary(frame, wire) ==
    {Err} \cup {Ok(m) : m \in wire}

\* ------------------------------------------------------------ the calls
\* The history of a call: what it was given, what it returned, and the map
\* it found
record_call(op, result, message, data, time, returned) ==
    /\ last' = [op |-> op, result |-> result, message |-> message, data |-> data,
                time |-> time, returned |-> returned,
                prev_parity |->
                  IF result = "Ok" /\ IsSome(icao(Unwrap(message)))
                               /\ Unwrap(icao(Unwrap(message))) \in DOMAIN parities
                  THEN Some(parities[Unwrap(icao(Unwrap(message)))])
                  ELSE None]
    /\ before' = map
    /\ calls' = calls + 1
    /\ rejected' = IF result = "Ok" THEN rejected ELSE rejected + 1
    /\ log' = IF result = "Ok"
              THEN log \cup {<< icao(Unwrap(message)), time >>}
              ELSE log
    /\ parities' = IF result = "Ok" /\ Unwrap(message).body.tag = "AirbornePosition"
                   THEN insert(parities, Unwrap(Unwrap(message).icao_address),
                               Unwrap(message).body.cpr_frame.parity)
                   ELSE parities
    /\ samples' = IF result = "Ok" /\ Unwrap(message).kind = "Unknown"
                  THEN LET df == Unwrap(message).downlink_format
                       IN  insert(samples, df,
                                  IF df \in DOMAIN samples
                                  THEN Append(samples[df], data) ELSE << data >>)
                  ELSE samples
    /\ alive' = (result # "panic")
    /\ query' = NoQuery

\* Tracker::update_with_message called with one of inputs
UpdateWithMessage(inputs, ticks, max) ==
    /\ alive
    /\ calls < max
    /\ \E in \in inputs, tick \in ticks :
         /\ wall' = wall + tick
         /\ update_with_message(in.message, in.data, in.time, wall + tick)
         /\ record_call("update_with_message", "Ok", Some(in.message), in.data,
                        in.time, returned_by(in.message, in.time))
    /\ UNCHANGED procs

\* update_with_binary, but a frame that fails to decode is counted
update_with_binary_counting_errors(frame, decoded, time, now) ==
    IF IsOk(decoded)
    THEN /\ update_with_message(decoded[2], frame, time, now)
         /\ record_call("update_with_binary", "Ok", Some(decoded[2]), frame, time,
                        returned_by(decoded[2], time))
    ELSE /\ num_messages' = num_messages + 1
         /\ UNCHANGED << map, num_unknown_messages, unknown_message_counts,
                         unknown_message_data, known_message_counts,
                         most_recent_message_time, first_message_real_time,
                         most_recent_message_real_time, pos_update_times >>
         /\ record_call("update_with_binary", "Err", None, frame, time, None)

\* Tracker::update_with_binary: the decoder's error is returned, a decoded
\* message is processed with the frame as its payload
update_with_binary(frame, decoded, time, now) ==
    IF IsOk(decoded)
    THEN /\ update_with_message(decoded[2], frame, time, now)
         /\ record_call("update_with_binary", "Ok", Some(decoded[2]), frame, time,
                        returned_by(decoded[2], time))
    ELSE /\ UNCHANGED tracker
         /\ record_call("update_with_binary", "Err", None, frame, time, None)

UpdateWithBinary(frames, wire, times, ticks, max) ==
    /\ alive
    /\ calls < max
    /\ \E frame \in frames, time \in times, tick \in ticks :
         \E decoded \in adsb_parse_binary(frame, wire) :
            /\ wall' = wall + tick
            /\ update_with_binary(frame, decoded, time, wall + tick)
    /\ UNCHANGED procs

\* Tracker::update_with_avr: the decoder's error is returned; the frame is
\* then unpacked a second time by parse_avr, and a failure there panics
update_with_avr(frame, decoded, time, now) ==
    IF ~IsOk(decoded)
    THEN /\ UNCHANGED tracker
         /\ record_call("update_with_avr", "Err", None, frame, time, None)
    ELSE LET data == parse_avr(frame)
         IN  IF IsOk(data)
             THEN /\ update_with_message(decoded[2], data[2], time, now)
                  /\ record_call("update_with_avr", "Ok", Some(decoded[2]), data[2],
                                 time, returned_by(decoded[2], time))
             ELSE /\ UNCHANGED tracker
                  /\ record_call("update_with_avr", "panic", None, frame, time, None)

UpdateWithAvr(frames, wire, times, ticks, max) ==
    /\ alive
    /\ calls < max
    /\ \E frame \in frames, time \in times, tick \in ticks :
         \E decoded \in adsb_parse_avr(frame, wire) :
            /\ wall' = wall + tick
            /\ update_with_avr(frame, decoded, time, wall + tick)
    /\ UNCHANGED procs

\* ------------------------------------------------------------ the queries
\* The orders in which HashMap::values() can yield the records of m
iteration_orders(m) ==
    LET n == Cardinality(DOMAIN m)
    IN  {[i \in 1..n |-> m[keys[i]]] :
           keys \in {k \in [1..n -> DOMAIN m] : \A i, j \in 1..n : k[i] = k[j] => i = j}}

\* is_current, but with the boundary included
is_current_inclusive(a, interval, now) ==
    signed_duration_since(now, a.last_seen) <= interval

\* The filter of get_current_aircraft
is_current(a, interval, now) ==
    signed_duration_since(now, a.last_seen) < interval

\* Tracker::get_current_aircraft over the records as values() yields them
get_current_aircraft(values, interval, now) ==
    SelectSeq(values, LAMBDA a : is_current(a, interval, now))

\* Tracker::get_all_aircraft
get_all_aircraft(values) == values

GetCurrentAircraft(intervals, nows) ==
    /\ alive
    /\ \E interval \in intervals, now \in nows, values \in iteration_orders(map) :
         query' = [op |-> "get_current_aircraft", interval |-> interval, now |-> now,
                   result |-> get_current_aircraft(values, interval, now)]
    /\ UNCHANGED << tracker, wall, alive, calls, rejected, log, last, before, parities,
                    samples, procs >>

GetAllAircraft ==
    /\ alive
    /\ \E values \in iteration_orders(map) :
         query' = [op |-> "get_all_aircraft", interval |-> 0, now |-> 0,
                   result |-> get_all_aircraft(values)]
    /\ UNCHANGED << tracker, wall, alive, calls, rejected, log, last, before, parities,
                    samples, procs >>

\* An f64 quotient: finite, or what IEEE 754 gives on a zero divisor
f64_div(num, den) ==
    [class |-> IF den # 0 THEN "finite"
               ELSE IF num = 0 THEN "NaN" ELSE IF num > 0 THEN "inf" ELSE "-inf",
     num |-> num, den |-> den]

\* Tracker::get_messages_per_second_real_time
get_messages_per_second_real_time ==
    IF IsSome(first_message_real_time)
    THEN IF IsSome(most_recent_message_real_time)
         THEN Some(f64_div(1000 * num_messages,
                           signed_duration_since(Unwrap(most_recent_message_real_time),
                                                 Unwrap(first_message_real_time))))
         ELSE None
    ELSE None

GetMessagesPerSecond ==
    /\ alive
    /\ query' = [op |-> "get_messages_per_second_real_time", interval |-> 0, now |-> 0,
                 result |-> get_messages_per_second_real_time]
    /\ UNCHANGED << tracker, wall, alive, calls, rejected, log, last, before, parities,
                    samples, procs >>

\* ------------------------------------------------------------ the inputs
Callsigns == { << "A", "B", " ", " " >> }

known_messages(icaos, frames) ==
    UNION {
      {AircraftIdentification(17, a, c) : c \in Callsigns}
      \cup {AirbornePosition(17, a, 36000, f) : f \in frames}
      \cup {AirborneVelocity(17, a, 90, 450, -64, "BarometricPressureAltitude")}
      \cup {SurveillanceIdentity(5, a, 1200)}
      : a \in icaos }

unknown_messages == {UnknownMessage(11), UnknownMessage(17)}

\* A known message comes with its frame, an unknown one with either payload
inputs_of(known, unknown, payloads, times) ==
    {[message |-> m, data |-> << 141 >>, time |-> t] : m \in known, t \in times}
    \cup {[message |-> m, data |-> d, time |-> t] :
            m \in unknown, d \in payloads, t \in times}

\* Spec: the three update entry points on every variant of message
Icaos == {1, 2}
Times == {1000, 2000}
Ticks == {1}
Payloads == { << 88 >>, << 89 >> }
Inputs ==
    inputs_of(known_messages(Icaos, {CPRFrame("Even", 0), CPRFrame("Odd", 0)}),
              unknown_messages, Payloads, Times)
WireMessages ==
    {AircraftIdentification(17, 1, << "A", "B", " ", " " >>),
     AirbornePosition(17, 2, 36000, CPRFrame("Even", 0)),
     UnknownMessage(11)}
BinaryFrames == { << 141, 1 >>, << 88 >> }
AvrFrames ==
    { << "*", "8", "D", ";" >>,          \* as read_from_stdin passes it, trimmed
      << "*", "8", "D", ";", "\n" >>,    \* as read_from_network passes it
      << "8", "D" >> }

Next ==
    \/ UpdateWithMessage(Inputs, Ticks, MaxCalls)
    \/ UpdateWithBinary(BinaryFrames, WireMessages, Times, Ticks, MaxCalls)
    \/ UpdateWithAvr(AvrFrames, WireMessages, Times, Ticks, MaxCalls)

Spec == Init /\ [][Next]_vars

\* SpecPos: the position merge of one aircraft, fragments of both parities
\* at arrival times 5 s, 30 s, 30.5 s, 35 s and 40 s apart, with a message of
\* another variant and an unknown one in between
PosFrames == {CPRFrame("Even", 0), CPRFrame("Odd", 0), CPRFrame("Odd", 1)}
PosTimes == {0, 5000, 35000, 35500, 40000}
PosInputs ==
    {[message |-> AirbornePosition(17, 1, 36000, f), data |-> << 141 >>, time |-> t] :
       f \in PosFrames, t \in PosTimes}
    \cup {[message |-> SurveillanceIdentity(5, 1, 1200), data |-> << 40 >>,
           time |-> 40000],
          [message |-> UnknownMessage(11), data |-> << 88 >>, time |-> 40000]}

NextPos == UpdateWithMessage(PosInputs, Ticks, MaxPosCalls)

SpecPos == Init /\ [][NextPos]_vars

\* SpecQuery: the queries on trackers of up to two aircraft
QueryTimes == {1000, 2000, 3000}
QueryIntervals == {1000, 2000}
QueryInputs ==
    {[message |-> SurveillanceIdentity(5, a, 1200), data |-> << 40 >>, time |-> t] :
       a \in Icaos, t \in QueryTimes}

NextQuery ==
    \/ UpdateWithMessage(QueryInputs, Ticks, MaxQueryCalls)
    \/ GetCurrentAircraft(QueryIntervals, QueryTimes)
    \/ GetAllAircraft

SpecQuery == Init /\ [][NextQuery]_vars

\* SpecUnknown: unknown messages of two downlink formats with two payloads,
\* through update_with_message and update_with_binary, between known ones
UnknownInputs ==
    inputs_of({SurveillanceIdentity(5, 1, 1200)}, unknown_messages, Payloads, {1000})

NextUnknown ==
    \/ UpdateWithMessage(UnknownInputs, Ticks, MaxUnknownCalls)
    \/ UpdateWithBinary(BinaryFrames, {UnknownMessage(11)}, {1000}, Ticks,
                        MaxUnknownCalls)

SpecUnknown == Init /\ [][NextUnknown]_vars

\* SpecClock: a known and an unknown message, processed at wall-clock
\* times zero or one millisecond after the call before
ClockTicks == {0, 1}
ClockInputs ==
    inputs_of({SurveillanceIdentity(5, 1, 1200)}, {UnknownMessage(11)},
              { << 88 >> }, {1000})

NextClock ==
    \/ UpdateWithMessage(ClockInputs, ClockTicks, MaxClockCalls)
    \/ GetMessagesPerSecond

SpecClock == Init /\ [][NextClock]_vars

\* SpecFix: position fixes of one aircraft at arrival times 250 ms and 1 s
\* apart, in and out of order, and 40 s apart
MaxFixCalls == 3
FixTimes == {0, 1000, 1250, 40000}
FixInputs ==
    {[message |-> AirbornePosition(17, 1, 36000, f), data |-> << 141 >>, time |-> t] :
       f \in PosFrames, t \in FixTimes}

NextFix == UpdateWithMessage(FixInputs, Ticks, MaxFixCalls)

SpecFix == Init /\ [][NextFix]_vars

\* SpecAvr: parse_avr on the text frames of byte sequences.  A frame is "*",
\* two hex digits per byte, upper or lower case, and ";".
MaxBytes == 3
Bytes == {0, 10, 141, 255}
ByteSeqs == UNION {[1..n -> Bytes] : n \in 0..MaxBytes}

RECURSIVE hex_encode(_, _)
hex_encode(b, digits) ==
    IF b = << >> THEN << >>
    ELSE << digits[(Head(b) \div 16) + 1], digits[(Head(b) % 16) + 1] >>
         \o hex_encode(Tail(b), digits)

hex_frame(b, digits) == << "*" >> \o hex_encode(b, digits) \o << ";" >>

InitAvr ==
    /\ TrackerInit
    /\ NoThreads
    /\ \E b \in ByteSeqs, digits \in {HexDigits, LowerHexDigits} :
         query = [op |-> "frame", interval |-> 0, now |-> 0,
                  result |-> hex_frame(b, digits), arg |-> b]

\* parse_avr(frame) on the frame of the state
ParseAvr ==
    /\ query.op = "frame"
    /\ query' = [query EXCEPT !.op = "parse_avr", !.result = parse_avr(query.result)]
    /\ UNCHANGED << tracker, wall, alive, calls, rejected, log, last, before, parities,
                    samples, procs >>

NextAvr == ParseAvr

SpecAvr == InitAvr /\ [][NextAvr]_vars

\* ----------------------------------------------------------- the threads
\* main() of bin.rs and the thread of read_from_stdin, read_from_network or
\* read_from_postgres around one Mutex<Tracker>; read_from_postgres2 runs on
\* the main thread.  A step is the code between two points where a thread
\* can block (a read of the source, Mutex::lock, a write to the terminal) or
\* where the other thread can observe it.
MaxThreadCalls == 2
MaxBatch == 2
ReportEvery == 10000
MinPrintSeconds == 10

sequential ==
    << tracker, wall, alive, calls, rejected, log, last, before, parities, samples,
       query >>

Running == process.state = "running"

\* Where a thread starts under each command
reader_start(c) ==
    CASE c = "stdin" -> "read"
      [] c \in {"tcp", "postgres"} -> "connect"
      [] OTHER -> "none"

main_start(c) == IF c = "postgres2" THEN "p2_connect" ELSE "setup"

\* The locations at which a producer reads its source, and those at which it
\* performs any input or output, the writes to stdout and stderr included
SourceReads == {"connect", "read", "p2_connect", "p2_query"}
AnyIO == SourceReads \cup {"panicking", "p2_print", "p2_report"}

\* The MutexGuard going out of scope: the lock is free
drop_guard(holder) == "none"

\* lock().unwrap(), but a poisoned mutex is locked all the same
lock_unwrap_ignoring_poison(m) == "acquired"

\* lock().unwrap(): a poisoned mutex gives Err, and unwrap panics
lock_unwrap(m) == IF m.poisoned THEN "panic" ELSE "acquired"

\* A panic in thread.  With the hook of main installed the hook prints and
\* calls process::exit(1) before any unwinding.  With the default hook the
\* thread unwinds: a guard it holds is dropped and poisons the mutex, and the
\* thread ends, which for the main thread ends the process.
panic_in(thread, holding) ==
    /\ hist' = [hist EXCEPT !.panicked = @ \/ holding]
    /\ IF process.hook
       THEN /\ process' = [process EXCEPT !.state = "exited", !.code = "exit(1)"]
            /\ UNCHANGED << mutex, reader >>
       ELSE /\ mutex' = IF holding THEN [holder |-> "none", poisoned |-> TRUE]
                        ELSE mutex
            /\ IF thread = "main"
               THEN /\ process' = [process EXCEPT !.state = "exited", !.code = "panic"]
                    /\ UNCHANGED reader
               ELSE /\ reader' = [reader EXCEPT !.pc = "dead"]
                    /\ UNCHANGED process

\* The lines a source of text frames delivers, and the messages the decoder
\* finds in them
ThreadLines ==
    { << "*", "8", "D", ";", "\n" >>, << "*", "8", "D", ";", "G", "\n" >> }
ThreadWire == {SurveillanceIdentity(5, 1, 1200)}

\* The rows a query delivers: timestamp, data, and what adsb::parse_binary
\* makes of data
ThreadRows ==
    {[time |-> 1000, data |-> << 141, 0 >>,
      decoded |-> Ok(AirbornePosition(17, 1, 36000, CPRFrame("Even", 0)))],
     [time |-> 1000, data |-> << 141, 1 >>,
      decoded |-> Ok(AirbornePosition(17, 1, 36000, CPRFrame("Odd", 0)))],
     [time |-> 1000, data |-> << 88 >>, decoded |-> Err]}

Batches == UNION {[1..n -> ThreadRows] : n \in 0..MaxBatch}

\* TcpStream::connect(..)? and Client::connect(..)? at the start of the thread
ReaderConnect ==
    /\ Running
    /\ reader.pc = "connect"
    /\ \/ /\ reader' = [reader EXCEPT !.pc = "read"]
          /\ UNCHANGED hist
       \/ /\ reader' = [reader EXCEPT !.pc = "failed"]
          /\ hist' = [hist EXCEPT !.source_closed = TRUE]
    /\ UNCHANGED << sequential, cmd, main, mutex, process >>

\* read_line(&mut input)? of read_from_stdin and read_from_network: a line,
\* the end of the input (Ok(0), input stays empty) or an error.  stdin trims
\* the line, the network reader does not.
ReaderRead ==
    /\ Running
    /\ cmd \in {"stdin", "tcp"}
    /\ reader.pc = "read"
    /\ \/ /\ calls < MaxThreadCalls
          /\ ~hist.source_closed
          /\ \E line \in ThreadLines :
               reader' = [pc |-> "lock",
                          input |-> IF cmd = "stdin" THEN trim(line) ELSE line]
          /\ UNCHANGED hist
       \/ /\ calls < MaxThreadCalls
          /\ reader' = [pc |-> "lock", input |-> << >>]
          /\ hist' = [hist EXCEPT !.source_closed = TRUE]
       \/ /\ reader' = [pc |-> "failed", input |-> << >>]
          /\ hist' = [hist EXCEPT !.source_closed = TRUE]
    /\ UNCHANGED << sequential, cmd, main, mutex, process >>

\* trans.query_portal(&portal, 10000)? of read_from_postgres: a batch of
\* rows, no rows once the portal is exhausted, or an error
ReaderQuery ==
    /\ Running
    /\ cmd = "postgres"
    /\ reader.pc = "read"
    /\ \/ \E batch \in Batches :
            /\ calls + Len(batch) <= MaxThreadCalls
            /\ hist.source_closed => batch = << >>
            /\ reader' = [pc |-> "lock", input |-> batch]
            /\ hist' = [hist EXCEPT !.batch = Len(batch),
                                    !.source_closed = @ \/ batch = << >>]
       \/ /\ reader' = [pc |-> "failed", input |-> << >>]
          /\ hist' = [hist EXCEPT !.source_closed = TRUE]
    /\ UNCHANGED << sequential, cmd, main, mutex, process >>

\* tracker.lock().unwrap() of the reader thread
ReaderLock ==
    /\ Running
    /\ reader.pc = "lock"
    /\ mutex.holder = "none"
    /\ IF lock_unwrap(mutex) = "panic"
       THEN panic_in("reader", FALSE)
       ELSE /\ mutex' = [mutex EXCEPT !.holder = "reader"]
            /\ reader' = [reader EXCEPT !.pc = IF cmd = "postgres" /\ reader.input = << >>
                                               THEN "unlock" ELSE "update"]
            /\ hist' = [hist EXCEPT !.held_updates = 0]
            /\ UNCHANGED process
    /\ UNCHANGED << sequential, cmd, main >>

\* tracker.update_with_avr(&input, Utc::now()) under the lock
ReaderUpdate ==
    /\ Running
    /\ cmd \in {"stdin", "tcp"}
    /\ reader.pc = "update"
    /\ \E decoded \in adsb_parse_avr(reader.input, ThreadWire) :
         /\ wall' = wall + 1
         /\ update_with_avr(reader.input, decoded, wall + 1, wall + 1)
         /\ reader' = [reader EXCEPT !.pc = IF IsOk(decoded) /\ ~IsOk(parse_avr(reader.input))
                                            THEN "panicking" ELSE "unlock"]
    /\ hist' = [hist EXCEPT !.held_updates = @ + 1,
                            !.after_panic = @ \/ hist.panicked]
    /\ UNCHANGED << cmd, main, mutex, process >>

\* One row of the batch: tracker.update_with_binary(&data, time) under the
\* lock
ReaderRow ==
    /\ Running
    /\ cmd = "postgres"
    /\ reader.pc = "update"
    /\ LET row == Head(reader.input)
       IN  /\ wall' = wall + 1
           /\ update_with_binary(row.data, row.decoded, row.time, wall + 1)
    /\ reader' = [pc |-> IF Tail(reader.input) = << >> THEN "unlock" ELSE "update",
                  input |-> Tail(reader.input)]
    /\ hist' = [hist EXCEPT !.held_updates = @ + 1,
                            !.after_panic = @ \/ hist.panicked]
    /\ UNCHANGED << cmd, main, mutex, process >>

\* println!("{:?}", e); panic!("Done") of update_with_avr, in the reader
\* thread and under the lock
ReaderPanic ==
    /\ Running
    /\ reader.pc = "panicking"
    /\ panic_in("reader", mutex.holder = "reader")
    /\ UNCHANGED << sequential, cmd, main >>

\* The end of the loop body: input.clear(), the guard is dropped
ReaderUnlock ==
    /\ Running
    /\ reader.pc = "unlock"
    /\ mutex' = [mutex EXCEPT !.holder = drop_guard(mutex.holder)]
    /\ reader' = [pc |-> "read", input |-> << >>]
    /\ UNCHANGED << sequential, cmd, main, process, hist >>

\* main: raw mode, the terminal, then panic::set_hook
MainSetHook ==
    /\ Running
    /\ main.pc = "setup"
    /\ process' = [process EXCEPT !.hook = TRUE]
    /\ main' = [main EXCEPT !.pc = "stats_lock"]
    /\ UNCHANGED << sequential, cmd, reader, mutex, hist >>

\* The screen of a tick is drawn by ui::draw: the statistics, then the table
draw_screen == "stats_lock"

\* app.tracker.lock().unwrap() of draw_message_stats
MainStatsLock ==
    /\ Running
    /\ main.pc = draw_screen
    /\ mutex.holder = "none"
    /\ IF lock_unwrap(mutex) = "panic"
       THEN panic_in("main", FALSE) /\ UNCHANGED main
       ELSE /\ mutex' = [mutex EXCEPT !.holder = "main"]
            /\ hist' = [hist EXCEPT !.tick_locks = 1]
            /\ main' = [main EXCEPT !.pc = "stats_render"]
            /\ UNCHANGED << process, reader >>
    /\ UNCHANGED << sequential, cmd >>

\* draw_message_stats reads the counters and renders the paragraph with the
\* guard alive; the guard is dropped when the function returns
MainStatsRender ==
    /\ Running
    /\ main.pc = "stats_render"
    /\ hist' = [hist EXCEPT !.stats_seen = num_messages,
                            !.after_panic = @ \/ hist.panicked]
    /\ mutex' = [mutex EXCEPT !.holder = drop_guard(mutex.holder)]
    /\ main' = [main EXCEPT !.pc = "table_lock"]
    /\ UNCHANGED << sequential, cmd, reader, process >>

\* app.tracker.lock().unwrap() of draw_aircraft_table
MainTableLock ==
    /\ Running
    /\ main.pc = "table_lock"
    /\ mutex.holder = "none"
    /\ IF lock_unwrap(mutex) = "panic"
       THEN panic_in("main", FALSE) /\ UNCHANGED main
       ELSE /\ mutex' = [mutex EXCEPT !.holder = "main"]
            /\ hist' = [hist EXCEPT !.tick_locks = @ + 1]
            /\ main' = [main EXCEPT !.pc = "table_render"]
            /\ UNCHANGED << process, reader >>
    /\ UNCHANGED << sequential, cmd >>

\* draw_aircraft_table reads the aircraft and renders the table with the
\* guard alive
MainTableRender ==
    /\ Running
    /\ main.pc = "table_render"
    /\ hist' = [hist EXCEPT !.torn = (hist.stats_seen # num_messages),
                            !.after_panic = @ \/ hist.panicked]
    /\ mutex' = [mutex EXCEPT !.holder = drop_guard(mutex.holder)]
    /\ main' = [main EXCEPT !.pc = "flush"]
    /\ UNCHANGED << sequential, cmd, reader, process >>

\* terminal.draw writes the frame; if app.should_quit the loop ends and main
\* returns Ok(()), the JoinHandle of the reader dropped
MainFlush ==
    /\ Running
    /\ main.pc = "flush"
    /\ IF main.quit
       THEN /\ process' = [process EXCEPT !.state = "exited", !.code = "Ok"]
            /\ UNCHANGED main
       ELSE /\ main' = [main EXCEPT !.pc = "key"]
            /\ UNCHANGED process
    /\ UNCHANGED << sequential, cmd, reader, mutex, hist >>

\* thread::sleep(REFRESH_INTERVAL); keys.next(): no key or another key, 'q',
\* or an error of the terminal, which main returns
MainKey ==
    /\ Running
    /\ main.pc = "key"
    /\ \/ /\ main' = [main EXCEPT !.pc = draw_screen]
          /\ UNCHANGED process
       \/ /\ main' = [main EXCEPT !.pc = draw_screen, !.quit = TRUE]
          /\ UNCHANGED process
       \/ /\ process' = [process EXCEPT !.state = "exited", !.code = "Err"]
          /\ UNCHANGED main
    /\ UNCHANGED << sequential, cmd, reader, mutex, hist >>

\* read_from_postgres2(..).unwrap() of main: Client::connect(..)?
P2Connect ==
    /\ Running
    /\ main.pc = "p2_connect"
    /\ \/ /\ main' = [main EXCEPT !.pc = "p2_print", !.num_rows = 1]
          /\ UNCHANGED process
       \/ /\ process' = [process EXCEPT !.state = "exited", !.code = "panic"]
          /\ UNCHANGED main
    /\ UNCHANGED << sequential, cmd, reader, mutex, hist >>

\* println!(".") at the top of the loop
P2Print ==
    /\ Running
    /\ main.pc = "p2_print"
    /\ main' = [main EXCEPT !.pc = "p2_query"]
    /\ UNCHANGED << sequential, cmd, reader, mutex, process, hist >>

\* trans.query_portal(&portal, 10000)? of read_from_postgres2
P2Query ==
    /\ Running
    /\ main.pc = "p2_query"
    /\ \/ \E batch \in Batches :
            /\ calls + Len(batch) <= MaxThreadCalls
            /\ main' = [main EXCEPT !.pc = "p2_lock", !.input = batch]
            /\ hist' = [hist EXCEPT !.batch = Len(batch),
                                    !.source_closed = @ \/ batch = << >>]
            /\ UNCHANGED process
       \/ /\ process' = [process EXCEPT !.state = "exited", !.code = "panic"]
          /\ hist' = [hist EXCEPT !.source_closed = TRUE]
          /\ UNCHANGED main
    /\ UNCHANGED << sequential, cmd, reader, mutex >>

\* tracker.lock().unwrap(); num_rows = 0
P2Lock ==
    /\ Running
    /\ main.pc = "p2_lock"
    /\ mutex.holder = "none"
    /\ lock_unwrap(mutex) = "acquired"
    /\ mutex' = [mutex EXCEPT !.holder = "main"]
    /\ main' = [main EXCEPT !.pc = "p2_rows", !.num_rows = 0]
    /\ hist' = [hist EXCEPT !.held_updates = 0]
    /\ UNCHANGED << sequential, cmd, reader, process >>

\* One row under the lock: adsb::parse_binary(&data)?, update_with_message,
\* and the decision to write a line: the report every ReportEvery messages,
\* or the position of an aircraft not printed in the last MinPrintSeconds
P2Row ==
    /\ Running
    /\ main.pc = "p2_rows"
    /\ main.input # << >>
    /\ LET row == Head(main.input)
       IN  IF ~IsOk(row.decoded)
           THEN /\ mutex' = [mutex EXCEPT !.holder = drop_guard(mutex.holder)]
                /\ process' = [process EXCEPT !.state = "exited", !.code = "panic"]
                /\ UNCHANGED << sequential, main, hist >>
           ELSE LET message == row.decoded[2]
                    i == icao(message)
                IN  /\ wall' = wall + 1
                    /\ update_with_message(message, row.data, row.time, wall + 1)
                    /\ record_call("update_with_message", "Ok", Some(message),
                                   row.data, row.time,
                                   returned_by(message, row.time))
                    /\ LET due == IF Unwrap(i) \in DOMAIN main.last_printed
                                  THEN signed_duration_since(
                                         row.time, main.last_printed[Unwrap(i)])
                                       > 1000 * MinPrintSeconds
                                  ELSE TRUE
                           printed == /\ IsSome(i)
                                      /\ due
                                      /\ IsSome(map'[Unwrap(i)].latitude)
                                      /\ IsSome(map'[Unwrap(i)].longitude)
                           reported == /\ num_messages' % ReportEvery = 0
                                       /\ IsSome(get_messages_per_second_real_time')
                       IN  main' = [main EXCEPT
                                      !.pc = IF printed \/ reported
                                             THEN "p2_report" ELSE "p2_rows",
                                      !.input = Tail(main.input),
                                      !.num_rows = @ + 1,
                                      !.last_printed =
                                         IF printed THEN insert(@, Unwrap(i), row.time)
                                         ELSE @]
                    /\ hist' = [hist EXCEPT !.held_updates = @ + 1]
                    /\ UNCHANGED << mutex, process >>
    /\ UNCHANGED << cmd, reader >>

\* The println! or eprintln! of a row, the guard alive
P2Report ==
    /\ Running
    /\ main.pc = "p2_report"
    /\ main' = [main EXCEPT !.pc = "p2_rows"]
    /\ UNCHANGED << sequential, cmd, reader, mutex, process, hist >>

\* The end of the batch: the guard is dropped; while num_rows > 0 the loop
\* goes on, else read_from_postgres2 returns Ok(()) and so does main
P2RowsDone ==
    /\ Running
    /\ main.pc = "p2_rows"
    /\ main.input = << >>
    /\ mutex' = [mutex EXCEPT !.holder = drop_guard(mutex.holder)]
    /\ IF main.num_rows > 0
       THEN /\ main' = [main EXCEPT !.pc = "p2_print"]
            /\ UNCHANGED process
       ELSE /\ process' = [process EXCEPT !.state = "exited", !.code = "Ok"]
            /\ UNCHANGED main
    /\ UNCHANGED << sequential, cmd, reader, hist >>

\* SpecThreads: the program under each of its commands
Commands == {"stdin", "tcp", "postgres", "postgres2"}

InitThreads ==
    /\ TrackerInit
    /\ query = NoQuery
    /\ cmd \in Commands
    /\ reader = [pc |-> reader_start(cmd), input |-> << >>]
    /\ main = [pc |-> main_start(cmd), quit |-> FALSE, input |-> << >>,
               num_rows |-> 0, last_printed |-> EmptyMap]
    /\ mutex = [holder |-> "none", poisoned |-> FALSE]
    /\ process = [state |-> "running", code |-> "none", hook |-> FALSE]
    /\ hist = NoHistory

ReaderStep ==
    \/ ReaderConnect
    \/ ReaderRead
    \/ ReaderQuery
    \/ ReaderLock
    \/ ReaderUpdate
    \/ ReaderRow
    \/ ReaderPanic
    \/ ReaderUnlock

MainStep ==
    \/ MainSetHook
    \/ MainStatsLock
    \/ MainStatsRender
    \/ MainTableLock
    \/ MainTableRender
    \/ MainFlush
    \/ MainKey
    \/ P2Connect
    \/ P2Print
    \/ P2Query
    \/ P2Lock
    \/ P2Row
    \/ P2Report
    \/ P2RowsDone

NextThreads ==
    \/ ReaderConnect
    \/ ReaderRead
    \/ ReaderQuery
    \/ ReaderLock
    \/ ReaderUpdate
    \/ ReaderRow
    \/ ReaderPanic
    \/ ReaderUnlock
    \/ MainSetHook
    \/ MainStatsLock
    \/ MainStatsRender
    \/ MainTableLock
    \/ MainTableRender
    \/ MainFlush
    \/ MainKey
    \/ P2Connect
    \/ P2Print
    \/ P2Query
    \/ P2Lock
    \/ P2Row
    \/ P2Report
    \/ P2RowsDone

\* The operating system schedules both threads: a thread that can take a
\* step takes one
SpecThreads ==
    InitThreads /\ [][NextThreads]_vars /\ WF_vars(ReaderStep) /\ WF_vars(MainStep)


\* ------------------------------------------------------------ the claims
\* The last call processed a message, and the message it processed
Processed == last.result = "Ok"
LastMessage == Unwrap(last.message)
LastAircraft == Unwrap(icao(LastMessage))
LastIsKnown == Processed /\ IsSome(icao(LastMessage))
LastIsPosition == Processed /\ LastMessage.body.tag = "AirbornePosition"

\* The record of a as the last call found it (as created, if it created it)
Before(a) == IF a \in DOMAIN before THEN before[a] ELSE Aircraft_new(a, last.time)

\* The last call left the position of a as it was
PositionUnchanged(a) ==
    /\ map[a].latitude = Before(a).latitude
    /\ map[a].longitude = Before(a).longitude
    /\ map[a].last_pos_seen = Before(a).last_pos_seen

\* The largest element of a non-empty set of times
MaxOf(S) == CHOOSE t \in S : \A u \in S : u <= t

\* C1: the per-format known counts and the unknown count add up to the
\* message count, and the per-format unknown counts to the unknown count.
CountsAddUp ==
    /\ Sum(known_message_counts) + num_unknown_messages = num_messages
    /\ Sum(unknown_message_counts) = num_unknown_messages

\* A known and an unknown message of the same downlink format were counted
CountsAddUpWitness ==
    /\ num_messages = 2
    /\ 17 \in DOMAIN known_message_counts
    /\ 17 \in DOMAIN unknown_message_counts

\* C2 as stated: after N update calls the message count is N.
EveryCallCounted == num_messages = calls

\* C2, amended: the message count is the number of update calls that
\* returned Ok; a call that returns the decoder's error or panics counts
\* nothing.
ProcessedCallsCounted == num_messages = calls - rejected

\* Two calls, one of them rejected by the decoder
ProcessedCallsCountedWitness ==
    /\ calls = 2
    /\ rejected = 1
    /\ num_messages = 1
    /\ last.result = "Err"

\* C3: a frame that cannot be decoded makes update_with_avr and
\* update_with_binary return an error; neither panics.
UndecodableFrameReturnsError ==
    (last.op \in {"update_with_avr", "update_with_binary"} /\ last.result # "Ok")
        => last.result = "Err"

\* C4: with both fragments of an aircraft stored after update_position, a
\* pair more than 30 seconds apart resolves no position, and a pair at most
\* 30 seconds apart that the resolver decodes sets the position.
PairWindowIsThirtySeconds ==
    LastIsPosition =>
        LET rec == map[LastAircraft]
        IN  (IsSome(rec.last_cpr_even) /\ IsSome(rec.last_cpr_odd)) =>
              LET even == Unwrap(rec.last_cpr_even)
                  odd == Unwrap(rec.last_cpr_odd)
                  delta == Abs(even[2] - odd[2])
                  position == resolve_pair(LastMessage.body.cpr_frame.parity,
                                           even[1], odd[1])
              IN  /\ delta > 1000 * PairWindowSeconds => PositionUnchanged(LastAircraft)
                  /\ (delta <= 1000 * PairWindowSeconds /\ IsSome(position)) =>
                        /\ rec.latitude = Some(Unwrap(position).latitude)
                        /\ rec.longitude = Some(Unwrap(position).longitude)
                        /\ rec.last_pos_seen = Some(last.time)

\* The last call processed a fragment of the parity of the fragment
\* processed before it for the same aircraft
SameParityAgain ==
    /\ LastIsPosition
    /\ last.prev_parity = Some(LastMessage.body.cpr_frame.parity)

\* C5 as stated: a fragment of the parity of the one before it resolves no
\* position.
SameParityNeverResolves ==
    SameParityAgain => PositionUnchanged(LastAircraft)

\* The slot of the parity opposite to that of the last message, before the call
OppositeSlotBefore ==
    IF LastMessage.body.cpr_frame.parity = "Even"
    THEN Before(LastAircraft).last_cpr_odd
    ELSE Before(LastAircraft).last_cpr_even

\* C5, amended: a fragment of the parity of the one before it resolves no
\* position when no fragment of the opposite parity is stored for the
\* aircraft.
SameParityAloneNeverResolves ==
    (SameParityAgain /\ OppositeSlotBefore = None) => PositionUnchanged(LastAircraft)

\* A second Even fragment for an aircraft that never had an Odd one
SameParityAloneWitness ==
    /\ SameParityAgain
    /\ LastMessage.body.cpr_frame.parity = "Even"
    /\ OppositeSlotBefore = None
    /\ IsSome(Before(LastAircraft).last_cpr_even)
    /\ map[LastAircraft].latitude = None

\* C6: the coordinates of a record change only in an update that processes
\* an AirbornePosition fragment forming an Even/Odd pair within the
\* 30-second window.
CoordinatesChangeOnlyInWindow ==
    \A a \in DOMAIN map :
        (map[a].latitude # Before(a).latitude \/ map[a].longitude # Before(a).longitude)
        => /\ LastIsPosition
           /\ LastAircraft = a
           /\ IsSome(map[a].last_cpr_even)
           /\ IsSome(map[a].last_cpr_odd)
           /\ Abs(Unwrap(map[a].last_cpr_even)[2] - Unwrap(map[a].last_cpr_odd)[2])
                <= 1000 * PairWindowSeconds

\* C7: after an update with a message of aircraft A at event time T, the
\* record of A has last_seen = T, also when T is earlier than before.
LastSeenIsEventTime ==
    LastIsKnown =>
        /\ LastAircraft \in DOMAIN map
        /\ map[LastAircraft].last_seen = last.time

\* An update moved last_seen of an existing record back
LastSeenIsEventTimeWitness ==
    /\ LastIsKnown
    /\ LastAircraft \in DOMAIN before
    /\ before[LastAircraft].last_seen > last.time
    /\ map[LastAircraft].last_seen = last.time

\* C8 as stated: the most recent event time is the maximum of the event
\* times of all messages processed, and absent only if there was none.
MostRecentIsMaxOfAll ==
    IF log = {} THEN most_recent_message_time = None
    ELSE most_recent_message_time = Some(MaxOf({e[2] : e \in log}))

\* The messages processed that carried an ICAO address
KnownLog == {e \in log : IsSome(e[1])}

\* C8, amended: the most recent event time is the maximum of the event
\* times of the messages processed that carried an ICAO address, and absent
\* if and only if there was none.
MostRecentIsMaxOfKnown ==
    IF KnownLog = {} THEN most_recent_message_time = None
    ELSE most_recent_message_time = Some(MaxOf({e[2] : e \in KnownLog}))

\* An unknown message with an event time later than that of every known
\* message was processed
MostRecentIsMaxOfKnownWitness ==
    /\ IsSome(most_recent_message_time)
    /\ \E e \in log : e[1] = None /\ e[2] > Unwrap(most_recent_message_time)

\* C9: the map has a record for A if and only if a message with address A
\* was processed; no call removes a record; a record's address is its key.
RecordIffProcessed ==
    /\ DOMAIN map = {Unwrap(e[1]) : e \in KnownLog}
    /\ DOMAIN before \subseteq DOMAIN map
    /\ \A a \in DOMAIN map : map[a].icao_address = a

\* A second record was created beside the first
RecordIffProcessedWitness ==
    /\ Cardinality(DOMAIN map) = 2
    /\ Cardinality(DOMAIN before) = 1
    /\ LastIsKnown

\* How often the record of a is in the Vec the query returned
Occurrences(a) ==
    Cardinality({i \in 1..Len(query.result) : query.result[i] = map[a]})

\* C10: get_current_aircraft(W, t) returns exactly the records with
\* t - last_seen < W, each once (t - last_seen = W is excluded), and
\* get_all_aircraft returns every record.
WindowIsExclusive ==
    /\ query.op = "get_current_aircraft" =>
         /\ \A a \in DOMAIN map :
              /\ query.now - map[a].last_seen = query.interval => Occurrences(a) = 0
              /\ query.now - map[a].last_seen > query.interval => Occurrences(a) = 0
              /\ query.now - map[a].last_seen < query.interval => Occurrences(a) = 1
         /\ \A i \in 1..Len(query.result) :
              \E a \in DOMAIN map : query.result[i] = map[a]
    /\ query.op = "get_all_aircraft" =>
         /\ \A a \in DOMAIN map : Occurrences(a) = 1
         /\ Len(query.result) = Cardinality(DOMAIN map)

\* One record at the boundary is left out, one seen after t is returned
WindowIsExclusiveWitness ==
    /\ query.op = "get_current_aircraft"
    /\ Len(query.result) = 1
    /\ \E a, b \in DOMAIN map :
         /\ query.now - map[a].last_seen = query.interval
         /\ map[b].last_seen > query.now
         /\ query.result[1] = map[b]

\* The sum of the lengths of the sequences of a map
RECURSIVE SumLen(_, _)
SumLen(f, keys) ==
    IF keys = {} THEN 0
    ELSE LET k == CHOOSE x \in keys : TRUE
         IN Len(f[k]) + SumLen(f, keys \ {k})

\* C11: after k unknown messages of downlink format d, whatever came in
\* between, the unknown count has grown by k in all and the count of d is
\* k; the sample of d is the payload of the latest of them; formats that
\* had no unknown message have no count and no sample.
UnknownStatisticsFollowMessages ==
    /\ DOMAIN unknown_message_counts = DOMAIN samples
    /\ DOMAIN unknown_message_data = DOMAIN samples
    /\ num_unknown_messages = SumLen(samples, DOMAIN samples)
    /\ \A d \in DOMAIN samples :
         /\ unknown_message_counts[d] = Len(samples[d])
         /\ unknown_message_data[d] = samples[d][Len(samples[d])]

\* Three unknown messages of one format, the third with another payload
\* than the first two, with a message of another format never seen
UnknownStatisticsWitness ==
    /\ 11 \in DOMAIN samples
    /\ Len(samples[11]) = 3
    /\ samples[11][1] = samples[11][2]
    /\ samples[11][3] # samples[11][1]
    /\ unknown_message_data[11] = samples[11][3]
    /\ 17 \notin DOMAIN unknown_message_data

\* C12: get_messages_per_second_real_time returns None when no message
\* has been processed and when no time has passed between the first and the
\* most recent processing; a value it returns has a non-zero divisor.
ThroughputAbsentWhenUndefined ==
    query.op = "get_messages_per_second_real_time" =>
        /\ num_messages = 0 => query.result = None
        /\ (IsSome(first_message_real_time)
              /\ most_recent_message_real_time = first_message_real_time)
           => query.result = None
        /\ IsSome(query.result) => Unwrap(query.result).den # 0

\* The thread that holds the lock as a producer, and where it is
ProducerHoldsLock ==
    mutex.holder = "reader" \/ (mutex.holder = "main" /\ cmd = "postgres2")
HolderPc == IF mutex.holder = "reader" THEN reader.pc ELSE main.pc

\* C13: no producer holds the tracker lock at a location where it is blocked
\* in or performs input or output: the lock is taken after the read of the
\* source has returned and is free again before the next input or output.
NoIOUnderLock == ProducerHoldsLock => HolderPc \notin AnyIO

\* C14: at the end of a refresh tick the render loop has acquired the lock
\* exactly once, and no update of a producer was applied between its read
\* of the statistics and its read of the aircraft table.
OneSnapshotPerTick ==
    main.pc = "flush" => hist.tick_locks = 1 /\ ~hist.torn

\* C15: once its source has closed or failed, an ingestion thread does not
\* acquire the tracker lock again and does not go back to read the source.
ReaderStopsWhenSourceCloses ==
    (hist.source_closed /\ cmd # "postgres2") =>
        mutex.holder # "reader" /\ reader.pc # "read"

\* C16: when the closure of the ingestion thread has returned an error, main
\* does not end with Ok(()) as if the source had been alive: the failure
\* reaches the caller.
SourceFailureSurfaced ==
    (reader.pc = "failed" /\ process.state = "exited") => process.code # "Ok"

\* C17: after a panic of a thread that holds the tracker lock, whether the
\* hook of main is installed or not, no thread completes a read or an update
\* of the tracker, and the process ends.
PanicUnderLockIsFatal ==
    /\ [](hist.panicked => ~hist.after_panic)
    /\ (hist.panicked ~> process.state = "exited")

\* The reader panicked under the lock before the hook was installed, the
\* mutex is poisoned, and the process ended through the hook in main
PanicUnderLockWitness ==
    /\ hist.panicked
    /\ mutex.poisoned
    /\ reader.pc = "dead"
    /\ process.state = "exited"
    /\ process.code = "exit(1)"

\* C18: parse_avr applied to the text frame of a byte sequence b, a marker,
\* two hex digits per byte and a marker, returns Ok(b): the same bytes in
\* the same order.
HexFrameRoundTrip ==
    query.op = "parse_avr" => query.result = Ok(query.arg)

\* A frame of several bytes, the byte 8D first, has been parsed
HexFrameRoundTripWitness ==
    /\ query.op = "parse_avr"
    /\ Len(query.arg) >= 2
    /\ query.arg[1] = 141
    /\ query.arg[2] = 10
    /\ query.result = Ok(query.arg)

\* C19: a step that processes an Unknown message leaves the aircraft map,
\* the per-format known counts and the position-fix histogram unchanged.
UnknownHasNoAircraftEffect ==
    [][(/\ calls' = calls + 1
        /\ last'.result = "Ok"
        /\ Unwrap(last'.message).kind = "Unknown")
       => (/\ map' = map
           /\ known_message_counts' = known_message_counts
           /\ pos_update_times' = pos_update_times)]_vars

\* An Unknown message was processed by a tracker that holds an aircraft with
\* a stored fragment and counts of known messages
UnknownHasNoAircraftEffectWitness ==
    /\ Processed
    /\ LastMessage.kind = "Unknown"
    /\ 1 \in DOMAIN map
    /\ IsSome(map[1].last_cpr_even)
    /\ map = before
    /\ known_message_counts # EmptyMap

\* The fragment of the last call, and the stored fragment of the other
\* parity with its arrival time, as the map holds them after the call
Received == LastMessage.body.cpr_frame
Complementary ==
    IF Received.parity = "Even"
    THEN map[LastAircraft].last_cpr_odd
    ELSE map[LastAircraft].last_cpr_even
ResolutionAttempted ==
    /\ LastIsPosition
    /\ IsSome(Complementary)
    /\ pair_in_window(last.time, Unwrap(Complementary)[2])

\* C20: when a position message leads to a resolution, the resolver is given
\* the stored fragment of the other parity first and the fragment just
\* received second, whichever of the two arrival times is larger: the
\* coordinates stored are those of get_position(complementary, received).
ReceivedFragmentIsSecond ==
    ResolutionAttempted =>
        LET position == get_position(Unwrap(Complementary)[1], Received)
        IN  IsSome(position) =>
              /\ map[LastAircraft].latitude = Some(Unwrap(position).latitude)
              /\ map[LastAircraft].longitude = Some(Unwrap(position).longitude)

\* An Even fragment resolved against a stored Odd fragment whose arrival time
\* is the larger one
ReceivedFragmentIsSecondWitness ==
    /\ ResolutionAttempted
    /\ Received.parity = "Even"
    /\ Unwrap(Complementary)[2] > last.time
    /\ map[LastAircraft].latitude
         = Some(<< "lat", Unwrap(Complementary)[1], Received >>)

\* The stored fragment of the other parity than frame in record r
OtherSlot(r, frame) ==
    IF frame.parity = "Even" THEN r.last_cpr_odd ELSE r.last_cpr_even

\* The fragment frame received at time t resolves to a coordinate in the
\* record r that the call left
ResolvesIn(r, frame, t) ==
    /\ IsSome(OtherSlot(r, frame))
    /\ pair_in_window(t, Unwrap(OtherSlot(r, frame))[2])
    /\ IsSome(get_position(Unwrap(OtherSlot(r, frame))[1], frame))

\* histogram h with one more in the bucket of ms, all other buckets as in g
OneMoreIn(h, g, ms) ==
    /\ DOMAIN h = DOMAIN g \cup {ms}
    /\ h[ms] = (IF ms \in DOMAIN g THEN g[ms] ELSE 0) + 1
    /\ \A k \in DOMAIN g : k # ms => h[k] = g[k]

\* C21: a step that processes a position fragment received at T.  If it
\* resolves to a coordinate the fix time becomes T; with a previous fix at P
\* the duration T - P is yielded and the one bucket 100 * ((T - P) / 100) of
\* pos_update_times is incremented; on the first fix nothing is yielded and
\* the histogram is unchanged.  If it does not resolve, nothing is yielded
\* and fix time and histogram are unchanged.
FixTimeAndHistogram ==
    [][(/\ calls' = calls + 1
        /\ last'.result = "Ok"
        /\ Unwrap(last'.message).body.tag = "AirbornePosition")
       => LET a == Unwrap(icao(Unwrap(last'.message)))
              T == last'.time
              P == IF a \in DOMAIN map THEN map[a].last_pos_seen ELSE None
          IN  IF ResolvesIn(map'[a], Unwrap(last'.message).body.cpr_frame, T)
              THEN /\ map'[a].last_pos_seen = Some(T)
                   /\ IF IsSome(P)
                      THEN /\ last'.returned = Some(T - Unwrap(P))
                           /\ OneMoreIn(pos_update_times', pos_update_times,
                                        100 * TruncDiv(T - Unwrap(P), 100))
                      ELSE /\ last'.returned = None
                           /\ pos_update_times' = pos_update_times
              ELSE /\ last'.returned = None
                   /\ map'[a].last_pos_seen = P
                   /\ pos_update_times' = pos_update_times]_vars

\* A second fix 250 ms after the first: 250 yielded, one count in bucket 200
FixTimeAndHistogramWitness ==
    /\ LastIsPosition
    /\ last.returned = Some(250)
    /\ map[LastAircraft].last_pos_seen = Some(last.time)
    /\ 200 \in DOMAIN pos_update_times
    /\ pos_update_times[200] = 1

\* The optional fields of a record, and those a variant of message sets
OptionalFields ==
    {"callsign", "squawk", "altitude", "heading", "ground_speed", "vertical_rate",
     "latitude", "longitude", "vertical_rate_source", "last_cpr_even", "last_cpr_odd",
     "last_pos_seen"}

FieldsOf(tag) ==
    CASE tag = "AircraftIdentification" -> {"callsign"}
      [] tag = "AirbornePosition" ->
           {"altitude", "last_cpr_even", "last_cpr_odd", "latitude", "longitude",
            "last_pos_seen"}
      [] tag = "AirborneVelocity" ->
           {"heading", "ground_speed", "vertical_rate", "vertical_rate_source"}
      [] tag = "SurveillanceIdentity" -> {"squawk"}

\* The fields of the message are in the record r
CarriesBody(r, body) ==
    CASE body.tag = "AircraftIdentification" -> IsSome(r.callsign)
      [] body.tag = "AirbornePosition" -> r.altitude = Some(body.altitude)
      [] body.tag = "AirborneVelocity" ->
           /\ r.heading = Some(body.heading)
           /\ r.ground_speed = Some(body.ground_speed)
           /\ r.vertical_rate = Some(body.vertical_rate)
           /\ r.vertical_rate_source = Some(body.vertical_rate_source)
      [] body.tag = "SurveillanceIdentity" -> r.squawk = Some(body.squawk)

\* C22: after an update with a known message for aircraft A the records of
\* all other aircraft are as before; the record of A has the fields of the
\* message and last_seen set, and every other optional field as it was
\* before, or absent if the update created the record.
OnlyFieldsOfVariantChange ==
    LastIsKnown =>
        /\ DOMAIN map = DOMAIN before \cup {LastAircraft}
        /\ \A b \in DOMAIN before : b # LastAircraft => map[b] = before[b]
        /\ map[LastAircraft].icao_address = LastAircraft
        /\ map[LastAircraft].last_seen = last.time
        /\ CarriesBody(map[LastAircraft], LastMessage.body)
        /\ \A f \in OptionalFields \ FieldsOf(LastMessage.body.tag) :
              map[LastAircraft][f] = IF LastAircraft \in DOMAIN before
                                     THEN before[LastAircraft][f]
                                     ELSE None

\* A velocity message for an aircraft that had a callsign: the callsign is
\* kept, the heading set
OnlyFieldsOfVariantChangeWitness ==
    /\ LastIsKnown
    /\ LastMessage.body.tag = "AirborneVelocity"
    /\ LastAircraft \in DOMAIN before
    /\ IsSome(before[LastAircraft].callsign)
    /\ map[LastAircraft].callsign = before[LastAircraft].callsign
    /\ IsSome(map[LastAircraft].heading)

\* C23 (as stated): whenever the total message count is at least 1, the
\* wall-clock first-processing time and most-recent-processing time are
\* both present, the first call having set them whatever its variant.
StampsPresentAfterAnyCall ==
    num_messages >= 1 =>
        /\ IsSome(first_message_real_time)
        /\ IsSome(most_recent_message_real_time)

\* C23 (amended): the first call with a known message sets the wall-clock
\* first-processing time, which never changes afterwards; every call with a
\* known message sets the most-recent-processing time to the time of the
\* call; a call with an Unknown message leaves both as they are.  Both are
\* present exactly when at least one known message has been processed.
StampsFollowKnownCalls ==
    /\ [](/\ IsSome(first_message_real_time) <=> num_messages - num_unknown_messages >= 1
          /\ IsSome(most_recent_message_real_time) <=> IsSome(first_message_real_time))
    /\ [][(calls' = calls + 1 /\ last'.result = "Ok")
           => IF Unwrap(last'.message).kind = "Unknown"
              THEN /\ first_message_real_time' = first_message_real_time
                   /\ most_recent_message_real_time' = most_recent_message_real_time
              ELSE /\ first_message_real_time' =
                        (IF IsSome(first_message_real_time)
                         THEN first_message_real_time ELSE Some(wall'))
                   /\ most_recent_message_real_time' = Some(wall')]_vars

\* An Unknown message was counted, known messages followed, and the first
\* stamp is older than the most recent one
StampsFollowKnownCallsWitness ==
    /\ num_unknown_messages >= 1
    /\ IsSome(first_message_real_time)
    /\ IsSome(most_recent_message_real_time)
    /\ Unwrap(first_message_real_time) < Unwrap(most_recent_message_real_time)

\* C24: the most-recent-event-time is present if and only if the map holds
\* an aircraft, and the last_seen of every record is no later than it: the
\* age the display computes, most-recent-event-time minus last_seen, is
\* never negative.
LastSeenBoundedByMostRecent ==
    /\ IsSome(most_recent_message_time) <=> DOMAIN map # {}
    /\ \A a \in DOMAIN map :
         /\ map[a].last_seen <= Unwrap(most_recent_message_time)
         /\ num_seconds(signed_duration_since(Unwrap(most_recent_message_time),
                                              map[a].last_seen)) >= 0

\* Two aircraft, the one updated last with the earlier event time: its
\* last_seen is below the most-recent-event-time, that of the other equal
LastSeenBoundedByMostRecentWitness ==
    /\ LastIsKnown
    /\ Cardinality(DOMAIN map) = 2
    /\ map[LastAircraft].last_seen < Unwrap(most_recent_message_time)
    /\ \E a \in DOMAIN map : map[a].last_seen = Unwrap(most_recent_message_time)

====
